---- MODULE Spec2Model ----
(***************************************************************************)
(* Model of src/message.rs: the Segment message types, their two JSON      *)
(* encodings (Message: untagged, StoredMessage: tagged with "type"), the   *)
(* decoders serde derives for them, From<StoredMessage> for Message and    *)
(* Message::path.                                                          *)
(*                                                                         *)
(* A JSON object is a sequence of entries [k, v] in the order the encoder  *)
(* writes them (serde_json writes duplicate keys as they come).  A JSON    *)
(* value is a record [t, s, items]: null, a string, an opaque object, or   *)
(* an array of objects.  Option<T> is a sequence of length at most one.    *)
(***************************************************************************)
EXTENDS Naturals, Sequences, FiniteSets, TLC

VARIABLES pc, msg, finalized, wire, res, out, route

vars == <<pc, msg, finalized, wire, res, out, route>>

---------------------------------------------------------------------------
(* Bounds of the model *)

MaxExtra == 1

MaxBatch == 2

---------------------------------------------------------------------------
(* JSON values: serde_json::Value and the bytes on the wire *)

JNull == [t |-> "null", s |-> "", items |-> <<>>]

JStr(x) == [t |-> "str", s |-> x, items |-> <<>>]

JObj(x) == [t |-> "obj", s |-> x, items |-> <<>>]

JArr(xs) == [t |-> "arr", s |-> "", items |-> xs]

Entry(key, val) == [k |-> key, v |-> val]

None == <<>>

Some(x) == <<x>>

\* The keys of an object, the number of entries under a key, the first of them.
Keys(obj) == {obj[i].k : i \in 1..Len(obj)}

Count(obj, key) == Cardinality({i \in 1..Len(obj) : obj[i].k = key})

FirstIdx(obj, key) == CHOOSE i \in 1..Len(obj) :
    obj[i].k = key /\ \A j \in 1..(i - 1) : obj[j].k # key

Get(obj, key) == obj[FirstIdx(obj, key)].v

\* serde_json::Map without preserve_order is a BTreeMap: keys come out sorted.
KeyOrder == <<"anonymousId", "batch", "context", "event", "groupId",
              "integrations", "messageId", "name", "previousId", "properties",
              "timestamp", "traits", "type", "userId">>

KeyRank(key) == CHOOSE i \in 1..Len(KeyOrder) : KeyOrder[i] = key

RECURSIVE SortedKeys(_)
SortedKeys(S) ==
    IF S = {} THEN <<>>
    ELSE LET m == CHOOSE x \in S : \A y \in S : KeyRank(x) <= KeyRank(y)
         IN  <<m>> \o SortedKeys(S \ {m})

EmptyMap == [x \in {} |-> JNull]

---------------------------------------------------------------------------
(* Timestamps: OffsetDateTime as a second count, RFC 3339 text on the wire *)

Rfc3339Text == <<"1970-01-01T00:00:01Z", "1970-01-01T00:00:02Z",
                 "1970-01-01T00:00:03Z", "1970-01-01T00:00:04Z">>

\* The instants events are built with, and the instants the clock may show.
EventTimes == {1}

ClockTimes == {1, 2}

FormatRfc3339(n) == JStr(Rfc3339Text[n])

IsRfc3339(val) == val.t = "str" /\ \E n \in 1..Len(Rfc3339Text) : Rfc3339Text[n] = val.s

ParseRfc3339(val) == CHOOSE n \in 1..Len(Rfc3339Text) : Rfc3339Text[n] = val.s

---------------------------------------------------------------------------
(* The types *)

LeafKinds == {"Identify", "Track", "Page", "Screen", "Group", "Alias"}

AllKinds == LeafKinds \cup {"Batch"}

UserId(u) == [variant |-> "UserId", user_id |-> u]

AnonymousId(a) == [variant |-> "AnonymousId", anonymous_id |-> a]

Both(u, a) == [variant |-> "Both", user_id |-> u, anonymous_id |-> a]

DefaultUser == AnonymousId("")

Message(kind, inner) == [enum |-> "Message", variant |-> kind, inner |-> inner]

StoredMessage(kind, inner) == [enum |-> "StoredMessage", variant |-> kind, inner |-> inner]

BatchMessage(kind, inner) == [enum |-> "BatchMessage", variant |-> kind, inner |-> inner]

NoMsg == [enum |-> "none", variant |-> "none", inner |-> <<>>]

\* #[derive(Default)] of each struct
DefaultOf(kind) ==
    CASE kind = "Identify" ->
           [user |-> DefaultUser, traits |-> JNull, timestamp |-> None,
            context |-> None, integrations |-> None, extra |-> EmptyMap]
      [] kind = "Track" ->
           [user |-> DefaultUser, event |-> "", properties |-> JNull, timestamp |-> None,
            context |-> None, integrations |-> None, extra |-> EmptyMap]
      [] kind = "Page" ->
           [user |-> DefaultUser, name |-> None, properties |-> JNull, timestamp |-> None,
            context |-> None, integrations |-> None, extra |-> EmptyMap]
      [] kind = "Screen" ->
           [user |-> DefaultUser, name |-> "", properties |-> JNull, timestamp |-> None,
            context |-> None, integrations |-> None, extra |-> EmptyMap]
      [] kind = "Group" ->
           [user |-> DefaultUser, group_id |-> "", traits |-> JNull, timestamp |-> None,
            context |-> None, integrations |-> None, extra |-> EmptyMap]
      [] kind = "Alias" ->
           [user |-> DefaultUser, previous_id |-> "", timestamp |-> None,
            context |-> None, integrations |-> None, extra |-> EmptyMap]
      [] kind = "Batch" ->
           [batch |-> <<>>, context |-> None, integrations |-> None, extra |-> EmptyMap]

\* The wire names of the named (non-flattened) fields of each struct, in
\* declaration order, and of the flattened identity.
NamedFields(kind) ==
    CASE kind = "Identify" -> <<"traits", "timestamp", "context", "integrations">>
      [] kind = "Track" -> <<"event", "properties", "timestamp", "context", "integrations">>
      [] kind = "Page" -> <<"name", "properties", "timestamp", "context", "integrations">>
      [] kind = "Screen" -> <<"name", "properties", "timestamp", "context", "integrations">>
      [] kind = "Group" -> <<"groupId", "traits", "timestamp", "context", "integrations">>
      [] kind = "Alias" -> <<"previousId", "timestamp", "context", "integrations">>
      [] kind = "Batch" -> <<"batch", "context", "integrations">>

Range(seq) == {seq[i] : i \in 1..Len(seq)}

---------------------------------------------------------------------------
(* Encoding: the derived Serialize impls *)

SerializeUser(u) ==
    CASE u.variant = "UserId" -> <<Entry("userId", JStr(u.user_id))>>
      [] u.variant = "AnonymousId" -> <<Entry("anonymousId", JStr(u.anonymous_id))>>
      [] u.variant = "Both" -> <<Entry("userId", JStr(u.user_id)),
                                 Entry("anonymousId", JStr(u.anonymous_id))>>

SerializeTimestamp(ts) ==
    IF ts = None THEN <<>> ELSE <<Entry("timestamp", FormatRfc3339(ts[1]))>>

SerializeOption(key, opt) ==
    IF opt = None THEN <<>> ELSE <<Entry(key, opt[1])>>

SerializeExtra(extra) ==
    LET ks == SortedKeys(DOMAIN extra)
    IN  [i \in 1..Len(ks) |-> Entry(ks[i], extra[ks[i]])]

SerializeCommon(e) ==
    SerializeTimestamp(e.timestamp) \o SerializeOption("context", e.context)
      \o SerializeOption("integrations", e.integrations) \o SerializeExtra(e.extra)

SerializeIdentify(e) ==
    SerializeUser(e.user) \o <<Entry("traits", e.traits)>> \o SerializeCommon(e)

SerializeTrack(e) ==
    SerializeUser(e.user) \o <<Entry("event", JStr(e.event)), Entry("properties", e.properties)>>
      \o SerializeCommon(e)

SerializePage(e) ==
    SerializeUser(e.user)
      \o <<Entry("name", IF e.name = None THEN JNull ELSE JStr(e.name[1])),
           Entry("properties", e.properties)>>
      \o SerializeCommon(e)

SerializeScreen(e) ==
    SerializeUser(e.user) \o <<Entry("name", JStr(e.name)), Entry("properties", e.properties)>>
      \o SerializeCommon(e)

SerializeGroup(e) ==
    SerializeUser(e.user) \o <<Entry("groupId", JStr(e.group_id)), Entry("traits", e.traits)>>
      \o SerializeCommon(e)

SerializeAlias(e) ==
    SerializeUser(e.user) \o <<Entry("previousId", JStr(e.previous_id))>> \o SerializeCommon(e)

SerializeLeaf(kind, e) ==
    CASE kind = "Identify" -> SerializeIdentify(e)
      [] kind = "Track" -> SerializeTrack(e)
      [] kind = "Page" -> SerializePage(e)
      [] kind = "Screen" -> SerializeScreen(e)
      [] kind = "Group" -> SerializeGroup(e)
      [] kind = "Alias" -> SerializeAlias(e)

\* #[serde(tag = "type")] with an explicit rename on every variant
BatchMessageTag(kind) ==
    CASE kind = "Identify" -> "identify"
      [] kind = "Track" -> "track"
      [] kind = "Page" -> "page"
      [] kind = "Screen" -> "screen"
      [] kind = "Group" -> "group"
      [] kind = "Alias" -> "alias"

\* A batch item written without its tag, as the untagged Message writes it.
SerializeBatchMessage_Untagged(bm) == SerializeLeaf(bm.variant, bm.inner)

SerializeBatchMessage(bm) ==
    <<Entry("type", JStr(BatchMessageTag(bm.variant)))>> \o SerializeLeaf(bm.variant, bm.inner)

SerializeBatch(b) ==
    <<Entry("batch", JArr([i \in 1..Len(b.batch) |-> SerializeBatchMessage(b.batch[i])]))>>
      \o SerializeOption("context", b.context)
      \o SerializeOption("integrations", b.integrations)
      \o SerializeExtra(b.extra)

SerializePayload(kind, inner) ==
    IF kind = "Batch" THEN SerializeBatch(inner) ELSE SerializeLeaf(kind, inner)

\* #[serde(untagged)]: the payload alone
SerializeMessage(m) == SerializePayload(m.variant, m.inner)

\* The variant names written as declared, as if rename_all were missing.
SnakeCase_Verbatim(kind) == kind

\* #[serde(rename_all = "snake_case")] applied to the variant names
SnakeCase(kind) ==
    CASE kind = "Identify" -> "identify"
      [] kind = "Track" -> "track"
      [] kind = "Page" -> "page"
      [] kind = "Screen" -> "screen"
      [] kind = "Group" -> "group"
      [] kind = "Alias" -> "alias"
      [] kind = "Batch" -> "batch"

\* #[serde(tag = "type")]: the tag first, then the payload's entries
SerializeStoredMessage(sm) ==
    <<Entry("type", JStr(SnakeCase(sm.variant)))>> \o SerializePayload(sm.variant, sm.inner)

---------------------------------------------------------------------------
(* Decoding: the derived Deserialize impls *)

\* A decode result. unknown is the variant name an "unknown variant" error
\* quotes in its message; it is empty in every other result.
Ok(v) == [ok |-> TRUE, err |-> "", unknown |-> "", val |-> v]

Err(e) == [ok |-> FALSE, err |-> e, unknown |-> "", val |-> <<>>]

\* de::Error::unknown_variant(tag, VARIANTS), raised by the derived variant
\* identifier visitor: "unknown variant TAG, expected one of ..."
UnknownVariant(tag) == [ok |-> FALSE, err |-> "unknown variant", unknown |-> tag, val |-> <<>>]

\* The least index of a set of entry indices (the first error of a scan).
MinOf(S) == CHOOSE i \in S : \A j \in S : i <= j

\* One variant of the untagged User, read from the buffered entries: its own
\* keys must each occur once and hold a string; every other key is ignored.
UserVariantMatches(fields, obj) ==
    \A f \in fields : Count(obj, f) = 1 /\ Get(obj, f).t = "str"

\* #[serde(untagged)] enum User: the variants are tried in declaration order.
DeserializeUser(obj) ==
    IF UserVariantMatches({"userId"}, obj)
      THEN Ok(UserId(Get(obj, "userId").s))
    ELSE IF UserVariantMatches({"anonymousId"}, obj)
      THEN Ok(AnonymousId(Get(obj, "anonymousId").s))
    ELSE IF UserVariantMatches({"userId", "anonymousId"}, obj)
      THEN Ok(Both(Get(obj, "userId").s, Get(obj, "anonymousId").s))
    ELSE Err("data did not match any variant of untagged enum User")

\* The field types behind the wire names of a leaf struct
FieldType(kind, key) ==
    CASE key \in {"traits", "properties"} -> "Value"
      [] key \in {"event", "groupId", "previousId"} -> "String"
      [] key = "name" -> IF kind = "Page" THEN "OptionString" ELSE "String"
      [] key = "timestamp" -> "Timestamp"
      [] key \in {"context", "integrations"} -> "OptionValue"

\* What reading one field's value reports: "" when the value is accepted.
FieldError(kind, key, val) ==
    LET ty == FieldType(kind, key)
    IN  CASE ty = "Value" -> ""
          [] ty = "OptionValue" -> ""
          [] ty = "String" -> IF val.t = "str" THEN "" ELSE "invalid type: expected a string"
          [] ty = "OptionString" ->
               IF val.t \in {"str", "null"} THEN "" ELSE "invalid type: expected a string"
          [] ty = "Timestamp" ->
               IF val.t = "null" \/ IsRfc3339(val) THEN ""
               ELSE IF val.t = "str" THEN "invalid value: expected an RFC3339-formatted datetime"
               ELSE "invalid type: expected an RFC3339-formatted datetime"

\* A field the visitor cannot default when its key never came: Option<T> fields
\* default to None, but `with = "time::serde::rfc3339::option"` without
\* #[serde(default)] turns a missing timestamp into an error.
IsRequired(kind, key) ==
    CASE key \in {"context", "integrations"} -> FALSE
      [] key = "name" -> kind # "Page"
      [] OTHER -> TRUE

\* The visitor's pass over the entries: a named key seen twice is an error, as
\* is a value its field type refuses; the first such entry decides.
IsDuplicate(obj, i) == \E j \in 1..(i - 1) : obj[j].k = obj[i].k

ScanErrors(kind, obj) ==
    {i \in 1..Len(obj) :
        /\ obj[i].k \in Range(NamedFields(kind))
        /\ IsDuplicate(obj, i) \/ FieldError(kind, obj[i].k, obj[i].v) # ""}

ScanError(kind, obj, i) ==
    IF IsDuplicate(obj, i) THEN "duplicate field" ELSE FieldError(kind, obj[i].k, obj[i].v)

MissingFields(kind, obj) ==
    {i \in 1..Len(NamedFields(kind)) :
        IsRequired(kind, NamedFields(kind)[i]) /\ NamedFields(kind)[i] \notin Keys(obj)}

\* The entries no named field took (__collect): what the flattened fields read.
Collected(kind, obj) == SelectSeq(obj, LAMBDA e : e.k \notin Range(NamedFields(kind)))

\* #[serde(flatten)] extra: Map<String, Value> reads every collected entry, the
\* ones the flattened User matched too (an untagged enum only borrows them);
\* a later entry replaces an earlier one of the same key.
DeserializeExtra(collect) ==
    [key \in Keys(collect) |->
        collect[CHOOSE i \in 1..Len(collect) :
                  collect[i].k = key /\ \A j \in (i + 1)..Len(collect) : collect[j].k # key].v]

ReadTimestamp(obj) ==
    IF Get(obj, "timestamp").t = "null" THEN None
    ELSE Some(ParseRfc3339(Get(obj, "timestamp")))

ReadOptionValue(obj, key) ==
    IF key \notin Keys(obj) \/ Get(obj, key).t = "null" THEN None ELSE Some(Get(obj, key))

ReadOptionString(obj, key) ==
    IF key \notin Keys(obj) \/ Get(obj, key).t = "null" THEN None ELSE Some(Get(obj, key).s)

\* The struct built once every named field is in hand.
BuildLeaf(kind, obj, user) ==
    LET ts == ReadTimestamp(obj)
        cx == ReadOptionValue(obj, "context")
        ig == ReadOptionValue(obj, "integrations")
        ex == DeserializeExtra(Collected(kind, obj))
    IN  CASE kind = "Identify" ->
               [user |-> user, traits |-> Get(obj, "traits"), timestamp |-> ts,
                context |-> cx, integrations |-> ig, extra |-> ex]
          [] kind = "Track" ->
               [user |-> user, event |-> Get(obj, "event").s,
                properties |-> Get(obj, "properties"), timestamp |-> ts,
                context |-> cx, integrations |-> ig, extra |-> ex]
          [] kind = "Page" ->
               [user |-> user, name |-> ReadOptionString(obj, "name"),
                properties |-> Get(obj, "properties"), timestamp |-> ts,
                context |-> cx, integrations |-> ig, extra |-> ex]
          [] kind = "Screen" ->
               [user |-> user, name |-> Get(obj, "name").s,
                properties |-> Get(obj, "properties"), timestamp |-> ts,
                context |-> cx, integrations |-> ig, extra |-> ex]
          [] kind = "Group" ->
               [user |-> user, group_id |-> Get(obj, "groupId").s,
                traits |-> Get(obj, "traits"), timestamp |-> ts,
                context |-> cx, integrations |-> ig, extra |-> ex]
          [] kind = "Alias" ->
               [user |-> user, previous_id |-> Get(obj, "previousId").s, timestamp |-> ts,
                context |-> cx, integrations |-> ig, extra |-> ex]

\* #[derive(Deserialize)] of a leaf struct with flattened fields: the pass over
\* the entries, then the missing fields, then the flattened user and extra.
LeafResult(kind, obj, errs, u) ==
    IF errs # {} THEN Err(ScanError(kind, obj, MinOf(errs)))
    ELSE IF MissingFields(kind, obj) # {} THEN Err("missing field")
    ELSE IF ~u.ok THEN u
    ELSE Ok(BuildLeaf(kind, obj, u.val))

DeserializeLeaf(kind, obj) ==
    LeafResult(kind, obj, ScanErrors(kind, obj), DeserializeUser(Collected(kind, obj)))

\* An internally tagged enum passes over the object: the tag is read where it
\* stands (an unknown name fails there), a second tag is a duplicate field; the
\* other entries are buffered for the variant.
Untagged(obj) == SelectSeq(obj, LAMBDA e : e.k # "type")

Tagged(enum, kind, r) ==
    IF r.ok THEN Ok([enum |-> enum, variant |-> kind, inner |-> r.val]) ELSE r

\* #[serde(tag = "type")] enum BatchMessage
BatchMessageOfTag(tag, obj) ==
    IF tag \notin {BatchMessageTag(kind) : kind \in LeafKinds} THEN UnknownVariant(tag)
    ELSE Tagged("BatchMessage",
                CHOOSE kind \in LeafKinds : BatchMessageTag(kind) = tag,
                DeserializeLeaf(CHOOSE kind \in LeafKinds : BatchMessageTag(kind) = tag,
                                Untagged(obj)))

DeserializeBatchMessage(obj) ==
    IF Count(obj, "type") = 0 THEN Err("missing field type")
    ELSE IF Get(obj, "type").t # "str" THEN Err("invalid type: expected variant identifier")
    ELSE IF Count(obj, "type") > 1 /\ Get(obj, "type").s \in {BatchMessageTag(kind) : kind \in LeafKinds}
      THEN Err("duplicate field type")
    ELSE BatchMessageOfTag(Get(obj, "type").s, obj)

\* batch: Vec<BatchMessage>, element by element
DeserializeItems(val) ==
    IF val.t # "arr" THEN <<Err("invalid type: expected a sequence")>>
    ELSE [i \in 1..Len(val.items) |-> DeserializeBatchMessage(val.items[i])]

FailedItems(items) == {n \in 1..Len(items) : ~items[n].ok}

BatchScanErrors(obj, items) ==
    {i \in 1..Len(obj) :
        /\ obj[i].k \in Range(NamedFields("Batch"))
        /\ IsDuplicate(obj, i) \/ (obj[i].k = "batch" /\ FailedItems(items) # {})}

\* #[derive(Deserialize)] of Batch; items are the decoded elements of its first
\* "batch" entry.
BatchResult(obj, items, errs) ==
    IF errs # {}
      THEN IF IsDuplicate(obj, MinOf(errs)) THEN Err("duplicate field")
           ELSE items[MinOf(FailedItems(items))]
    ELSE IF "batch" \notin Keys(obj) THEN Err("missing field")
    ELSE Ok([batch |-> [i \in 1..Len(items) |-> items[i].val],
             context |-> ReadOptionValue(obj, "context"),
             integrations |-> ReadOptionValue(obj, "integrations"),
             extra |-> DeserializeExtra(Collected("Batch", obj))])

BatchVisit(obj, items) == BatchResult(obj, items, BatchScanErrors(obj, items))

DeserializeBatch(obj) ==
    BatchVisit(obj, IF "batch" \in Keys(obj) THEN DeserializeItems(Get(obj, "batch")) ELSE <<>>)

DeserializePayload(kind, obj) ==
    IF kind = "Batch" THEN DeserializeBatch(obj) ELSE DeserializeLeaf(kind, obj)

\* A StoredMessage whose variant identifier falls back to Identify for a name
\* it does not know.
StoredMessageOfTag_DefaultsToIdentify(tag, obj) ==
    Tagged("StoredMessage",
           IF tag \in {SnakeCase(kind) : kind \in AllKinds}
             THEN CHOOSE kind \in AllKinds : SnakeCase(kind) = tag
             ELSE "Identify",
           DeserializePayload(IF tag \in {SnakeCase(kind) : kind \in AllKinds}
                                THEN CHOOSE kind \in AllKinds : SnakeCase(kind) = tag
                                ELSE "Identify",
                              Untagged(obj)))

\* #[serde(tag = "type")] enum StoredMessage
StoredMessageOfTag(tag, obj) ==
    IF tag \notin {SnakeCase(kind) : kind \in AllKinds} THEN UnknownVariant(tag)
    ELSE Tagged("StoredMessage",
                CHOOSE kind \in AllKinds : SnakeCase(kind) = tag,
                DeserializePayload(CHOOSE kind \in AllKinds : SnakeCase(kind) = tag,
                                   Untagged(obj)))

DeserializeStoredMessage(obj) ==
    IF Count(obj, "type") = 0 THEN Err("missing field type")
    ELSE IF Get(obj, "type").t # "str" THEN Err("invalid type: expected variant identifier")
    ELSE IF Count(obj, "type") > 1 /\ Get(obj, "type").s \in {SnakeCase(kind) : kind \in AllKinds}
      THEN Err("duplicate field type")
    ELSE StoredMessageOfTag(Get(obj, "type").s, obj)

\* #[serde(untagged)] enum Message: the variants in declaration order, the
\* first that decodes is the result.
VariantOrder == <<"Identify", "Track", "Page", "Screen", "Group", "Alias", "Batch">>

FirstMatch(results) ==
    IF \A i \in 1..Len(results) : ~results[i].ok
      THEN Err("data did not match any variant of untagged enum Message")
    ELSE Tagged("Message",
                VariantOrder[MinOf({i \in 1..Len(results) : results[i].ok})],
                results[MinOf({i \in 1..Len(results) : results[i].ok})])

DeserializeMessage(obj) ==
    FirstMatch([i \in 1..Len(VariantOrder) |-> DeserializePayload(VariantOrder[i], obj)])

---------------------------------------------------------------------------
(* The conversion and the routing *)

\* The conversion with the Page and Screen arms exchanged.
From_PageScreenSwapped(other) ==
    CASE other.variant = "Page" -> Message("Screen", other.inner)
      [] other.variant = "Screen" -> Message("Page", other.inner)
      [] OTHER -> Message(other.variant, other.inner)

\* impl From<StoredMessage> for Message
From(other) ==
    CASE other.variant = "Identify" -> Message("Identify", other.inner)
      [] other.variant = "Track" -> Message("Track", other.inner)
      [] other.variant = "Page" -> Message("Page", other.inner)
      [] other.variant = "Screen" -> Message("Screen", other.inner)
      [] other.variant = "Group" -> Message("Group", other.inner)
      [] other.variant = "Alias" -> Message("Alias", other.inner)
      [] other.variant = "Batch" -> Message("Batch", other.inner)

\* The routing with the Screen arm returning the page path.
path_ScreenAsPage(m) ==
    CASE m.variant = "Identify" -> "/v1/identify"
      [] m.variant = "Track" -> "/v1/track"
      [] m.variant = "Page" -> "/v1/page"
      [] m.variant = "Screen" -> "/v1/page"
      [] m.variant = "Group" -> "/v1/group"
      [] m.variant = "Alias" -> "/v1/alias"
      [] m.variant = "Batch" -> "/v1/batch"

\* Message::path
path(m) ==
    CASE m.variant = "Identify" -> "/v1/identify"
      [] m.variant = "Track" -> "/v1/track"
      [] m.variant = "Page" -> "/v1/page"
      [] m.variant = "Screen" -> "/v1/screen"
      [] m.variant = "Group" -> "/v1/group"
      [] m.variant = "Alias" -> "/v1/alias"
      [] m.variant = "Batch" -> "/v1/batch"

\* BatchMessage::timestamp_mut: the place of the item's timestamp, read ...
timestamp_mut(bm) ==
    CASE bm.variant = "Identify" -> bm.inner.timestamp
      [] bm.variant = "Track" -> bm.inner.timestamp
      [] bm.variant = "Page" -> bm.inner.timestamp
      [] bm.variant = "Screen" -> bm.inner.timestamp
      [] bm.variant = "Group" -> bm.inner.timestamp
      [] bm.variant = "Alias" -> bm.inner.timestamp

\* The write with the Page arm handing out the timestamp of a copy.
timestamp_mut_set_PageCopy(bm, ts) ==
    IF bm.variant = "Page" THEN bm ELSE [bm EXCEPT !.inner.timestamp = ts]

\* ... and written through
timestamp_mut_set(bm, ts) ==
    CASE bm.variant = "Identify" -> [bm EXCEPT !.inner.timestamp = ts]
      [] bm.variant = "Track" -> [bm EXCEPT !.inner.timestamp = ts]
      [] bm.variant = "Page" -> [bm EXCEPT !.inner.timestamp = ts]
      [] bm.variant = "Screen" -> [bm EXCEPT !.inner.timestamp = ts]
      [] bm.variant = "Group" -> [bm EXCEPT !.inner.timestamp = ts]
      [] bm.variant = "Alias" -> [bm EXCEPT !.inner.timestamp = ts]

\* into!: From<leaf> for Message and for BatchMessage
IntoMessage(kind, inner) == Message(kind, inner)

IntoBatchMessage(kind, inner) == BatchMessage(kind, inner)

---------------------------------------------------------------------------
(* The values a caller builds *)

Users == {DefaultUser, UserId("foo"), AnonymousId("bar"), Both("foo", "bar")}

Names == {"Foo"}

Values == {JNull, JObj("a")}

OptTimes == {None} \cup {Some(t) : t \in EventTimes}

OptValues == {None, Some(JNull), Some(JObj("a"))}

OptIntegrations == {None, Some(JObj("a"))}

ExtraKeys == {"messageId", "type", "event", "userId", "timestamp", "context"}

ExtraVals == {JStr("123"), JNull}

Extras == UNION {[S -> ExtraVals] : S \in {T \in SUBSET ExtraKeys : Cardinality(T) <= MaxExtra}}

\* A struct literal of a leaf kind: every field is public, nothing is checked.
MakeLeaf(kind, user, str, val, ts, cx, ig, ex) ==
    CASE kind = "Identify" ->
           [user |-> user, traits |-> val, timestamp |-> ts,
            context |-> cx, integrations |-> ig, extra |-> ex]
      [] kind = "Track" ->
           [user |-> user, event |-> str[1], properties |-> val, timestamp |-> ts,
            context |-> cx, integrations |-> ig, extra |-> ex]
      [] kind = "Page" ->
           [user |-> user, name |-> str, properties |-> val, timestamp |-> ts,
            context |-> cx, integrations |-> ig, extra |-> ex]
      [] kind = "Screen" ->
           [user |-> user, name |-> str[1], properties |-> val, timestamp |-> ts,
            context |-> cx, integrations |-> ig, extra |-> ex]
      [] kind = "Group" ->
           [user |-> user, group_id |-> str[1], traits |-> val, timestamp |-> ts,
            context |-> cx, integrations |-> ig, extra |-> ex]
      [] kind = "Alias" ->
           [user |-> user, previous_id |-> str[1], timestamp |-> ts,
            context |-> cx, integrations |-> ig, extra |-> ex]

\* The items pushed into a batch: each kind with and without a timestamp, and
\* a track whose extra map holds the key "type".
BatchItems ==
    {IntoBatchMessage(kind,
        MakeLeaf(kind, UserId("foo"), Some("Foo"), JObj("a"), ts, None, None, EmptyMap)) :
        kind \in LeafKinds, ts \in OptTimes}
    \cup {IntoBatchMessage("Track",
            MakeLeaf("Track", UserId("foo"), Some("Foo"), JObj("a"), None, None, None,
                     [x \in {"type"} |-> JStr("123")]))}

BatchExtras == {EmptyMap, [x \in {"messageId"} |-> JStr("123")], [x \in {"context"} |-> JNull]}

\* Stored bytes that no encoder of this program wrote. The values of their
\* "type" entries: a name no variant has, a variant's Rust name (the renamed
\* names are matched exactly), two known names, and a value that is no string.
ReceivedTags == {JStr("unknown_kind"), JStr("Track"), JStr("track"), JStr("identify"), JNull}

\* The other fields such a record carries: none, or all the fields of a
\* well-formed track, identify or batch.
ReceivedFields ==
    {<<>>, SerializePayload("Batch", DefaultOf("Batch"))}
    \cup {SerializePayload(kind,
              MakeLeaf(kind, UserId("foo"), Some("Foo"), JObj("a"), Some(1), None, None,
                       EmptyMap)) : kind \in {"Track", "Identify"}}

\* The discriminant stands before the other fields, after them, or twice.
ReceivedBytes ==
    {<<Entry("type", tag)>> \o fields : tag \in ReceivedTags, fields \in ReceivedFields}
    \cup {fields \o <<Entry("type", tag)>> : tag \in ReceivedTags, fields \in ReceivedFields}
    \cup {<<Entry("type", tag)>> \o fields \o <<Entry("type", again)>> :
             tag \in ReceivedTags, fields \in ReceivedFields, again \in ReceivedTags}

IsLeaf(m) == m.variant \in LeafKinds

IsBatch(m) == m.variant = "Batch"

---------------------------------------------------------------------------
(* The state machine: one value is built, then routed, or encoded in one of *)
(* the two forms and decoded again                                          *)

Init ==
    /\ pc = "idle"
    /\ msg = NoMsg
    /\ finalized = FALSE
    /\ wire = <<>>
    /\ res = Err("")
    /\ out = NoMsg
    /\ route = ""

\* Kind::default(), wrapped by into!
ConstructDefault ==
    /\ pc = "idle"
    /\ \E kind \in AllKinds : msg' = IntoMessage(kind, DefaultOf(kind))
    /\ pc' = "built"
    /\ UNCHANGED <<finalized, wire, res, out, route>>

\* Kind { user, ..., extra }, wrapped by into!
ConstructLeaf ==
    /\ pc = "idle"
    /\ \E kind \in LeafKinds, user \in Users, ts \in OptTimes, cx \in OptValues,
          ig \in OptIntegrations, ex \in Extras :
         \E str \in IF kind = "Page" THEN {None} \cup {Some(n) : n \in Names}
                    ELSE {Some(n) : n \in Names},
            val \in IF kind = "Alias" THEN {JNull} ELSE Values :
              msg' = IntoMessage(kind, MakeLeaf(kind, user, str, val, ts, cx, ig, ex))
    /\ pc' = "built"
    /\ UNCHANGED <<finalized, wire, res, out, route>>

\* Batch { batch: vec![], context, integrations, extra }
ConstructBatch ==
    /\ pc = "idle"
    /\ \E cx \in OptIntegrations, ex \in BatchExtras :
         msg' = IntoMessage("Batch", [batch |-> <<>>, context |-> cx,
                                      integrations |-> None, extra |-> ex])
    /\ pc' = "built"
    /\ UNCHANGED <<finalized, wire, res, out, route>>

\* batch.batch.push(item.into())
BatchPush ==
    /\ pc = "built"
    /\ IsBatch(msg)
    /\ ~finalized
    /\ Len(msg.inner.batch) < MaxBatch
    /\ \E item \in BatchItems : msg' = [msg EXCEPT !.inner.batch = Append(@, item)]
    /\ UNCHANGED <<pc, finalized, wire, res, out, route>>

\* The pass over a batch before it is encoded: every item without a timestamp
\* is given the current time through timestamp_mut.
Backfill(item, now) ==
    IF timestamp_mut(item) = None THEN timestamp_mut_set(item, Some(now)) ELSE item

Finalize ==
    /\ pc = "built"
    /\ IsBatch(msg)
    /\ ~finalized
    /\ \E now \in ClockTimes :
         msg' = [msg EXCEPT !.inner.batch =
                    [i \in 1..Len(msg.inner.batch) |-> Backfill(msg.inner.batch[i], now)]]
    /\ finalized' = TRUE
    /\ UNCHANGED <<pc, wire, res, out, route>>

\* msg.path()
Path ==
    /\ pc = "built"
    /\ route' = path(msg)
    /\ pc' = "routed"
    /\ UNCHANGED <<msg, finalized, wire, res, out>>

\* serde_json::to_string(&msg)
EncodeTransport ==
    /\ pc = "built"
    /\ wire' = SerializeMessage(msg)
    /\ pc' = "enc_transport"
    /\ UNCHANGED <<msg, finalized, res, out, route>>

\* serde_json::to_string(&StoredMessage::Kind(payload))
EncodeStored ==
    /\ pc = "built"
    /\ wire' = SerializeStoredMessage(StoredMessage(msg.variant, msg.inner))
    /\ pc' = "enc_stored"
    /\ UNCHANGED <<msg, finalized, res, out, route>>

\* serde_json::from_str::<Message>(&bytes)
DecodeTransport ==
    /\ pc = "enc_transport"
    /\ res' = DeserializeMessage(wire)
    /\ pc' = "dec_transport"
    /\ UNCHANGED <<msg, finalized, wire, out, route>>

\* serde_json::from_str::<StoredMessage>(&bytes)
DecodeStored ==
    /\ pc = "enc_stored"
    /\ res' = DeserializeStoredMessage(wire)
    /\ pc' = "dec_stored"
    /\ UNCHANGED <<msg, finalized, wire, out, route>>

\* Message::from(stored)
Convert ==
    /\ pc = "dec_stored"
    /\ res.ok
    /\ out' = From(res.val)
    /\ pc' = "converted"
    /\ UNCHANGED <<msg, finalized, wire, res, route>>

\* A record read back from storage that another writer put there.
Receive ==
    /\ pc = "idle"
    /\ \E bytes \in ReceivedBytes : wire' = bytes
    /\ pc' = "received"
    /\ UNCHANGED <<msg, finalized, res, out, route>>

\* serde_json::from_str::<StoredMessage>(..) of a received record
DecodeReceived ==
    /\ pc = "received"
    /\ res' = DeserializeStoredMessage(wire)
    /\ pc' = "dec_received"
    /\ UNCHANGED <<msg, finalized, wire, out, route>>

\* Message::from(stored) of a received record that decoded
ConvertReceived ==
    /\ pc = "dec_received"
    /\ res.ok
    /\ out' = From(res.val)
    /\ pc' = "delivered"
    /\ UNCHANGED <<msg, finalized, wire, res, route>>

Next ==
    \/ ConstructDefault
    \/ ConstructLeaf
    \/ ConstructBatch
    \/ BatchPush
    \/ Finalize
    \/ Path
    \/ EncodeTransport
    \/ EncodeStored
    \/ DecodeTransport
    \/ DecodeStored
    \/ Convert
    \/ Receive
    \/ DecodeReceived
    \/ ConvertReceived

Spec == Init /\ [][Next]_vars

---------------------------------------------------------------------------
(* The properties *)

TransportStates == {"enc_transport", "dec_transport"}

StoredStates == {"enc_stored", "dec_stored", "converted"}

Encoded == pc \in TransportStates \cup StoredStates

\* The lower-case names of the kinds, as the interface documents them.
KindName == [Identify |-> "identify", Track |-> "track", Page |-> "page",
             Screen |-> "screen", Group |-> "group", Alias |-> "alias", Batch |-> "batch"]

\* The wire names of an event's own fields: the named ones and, for a leaf, the
\* two of the flattened identity.
WireNames(kind) ==
    Range(NamedFields(kind)) \cup (IF kind \in LeafKinds THEN {"userId", "anonymousId"} ELSE {})

\* The elements of the encoded "batch" array
BatchArray == Get(wire, "batch").items

\* C1: decoding a stored-encoded event as a StoredMessage succeeds, and converting
\* the result with From gives a Message equal to the original in every field.
C1_StoredRoundTrip ==
    /\ pc = "dec_stored" => res.ok
    /\ pc = "converted" => out = msg

\* C2 as stated: the transport encoding of a leaf event has no "type" field, and
\* its stored encoding has the field "type" holding the lower-case kind name.
C2_TypeOnlyInStored ==
    IsLeaf(msg) =>
      /\ pc \in TransportStates => "type" \notin Keys(wire)
      /\ pc \in StoredStates =>
           "type" \in Keys(wire) /\ Get(wire, "type") = JStr(KindName[msg.variant])

\* C2 as amended: the transport encoding of a leaf event has a "type" field only
\* when the event's extra map holds that key, and then with the extra's value (the
\* encoder adds none); the stored encoding always starts with the field "type"
\* holding the lower-case kind name, and has one "type" entry more than the extra
\* map.
C2_DiscriminantOnlyFromTag ==
    IsLeaf(msg) =>
      LET own == IF "type" \in DOMAIN msg.inner.extra THEN 1 ELSE 0
      IN  /\ pc \in TransportStates =>
               /\ Count(wire, "type") = own
               /\ own = 1 => Get(wire, "type") = msg.inner.extra["type"]
          /\ pc \in StoredStates =>
               /\ wire[1] = Entry("type", JStr(KindName[msg.variant]))
               /\ Count(wire, "type") = own + 1

C2_Witness ==
    /\ pc = "enc_stored"
    /\ msg.variant = "Group"
    /\ "type" \in DOMAIN msg.inner.extra

\* C3: a leaf event decoded from its transport encoding as a Message comes back
\* as the variant kind that was encoded.
C3_TransportKindRecovered ==
    (pc = "dec_transport" /\ IsLeaf(msg) /\ res.ok) => res.val.variant = msg.variant

\* C4: in both forms the encoded "batch" array has one element per item, in
\* order, and element i is the stored encoding of item i: it starts with "type"
\* holding the item's lower-case kind name, followed by the item's fields.
C4_BatchItemsStoredStyle ==
    (IsBatch(msg) /\ Encoded) =>
      /\ Get(wire, "batch").t = "arr"
      /\ Len(BatchArray) = Len(msg.inner.batch)
      /\ \A i \in 1..Len(msg.inner.batch) :
           LET item == msg.inner.batch[i]
           IN  /\ BatchArray[i] = SerializeStoredMessage(StoredMessage(item.variant, item.inner))
               /\ BatchArray[i][1] = Entry("type", JStr(KindName[item.variant]))
               /\ item.variant \in LeafKinds

C4_Witness ==
    /\ pc = "enc_transport"
    /\ IsBatch(msg)
    /\ Len(msg.inner.batch) >= 2
    /\ msg.inner.batch[1].variant # msg.inner.batch[2].variant

C6_IdentityUsableWhenEncoded ==
    (IsLeaf(msg) /\ Encoded) =>
      /\ msg.inner.user # DefaultUser
      /\ \/ (msg.inner.user.variant \in {"UserId", "Both"} /\ msg.inner.user.user_id # "")
         \/ (msg.inner.user.variant \in {"AnonymousId", "Both"}
               /\ msg.inner.user.anonymous_id # "")

\* C7: no event whose extra map holds a key equal to the wire name of one of its
\* own fields exists, and so none is ever encoded.
C7_NoCollidingExtraEncoded ==
    Encoded => DOMAIN msg.inner.extra \cap WireNames(msg.variant) = {}

\* C8: in both encodings the object has the key "timestamp", "context" or
\* "integrations" exactly when that field of the event is present.
C8_OptionalKeysIffPresent ==
    Encoded =>
      /\ IsLeaf(msg) => ("timestamp" \in Keys(wire) <=> msg.inner.timestamp # None)
      /\ "context" \in Keys(wire) <=> msg.inner.context # None
      /\ "integrations" \in Keys(wire) <=> msg.inner.integrations # None

\* C9: From<StoredMessage> for Message is defined on every stored record and
\* gives the Message variant of the same kind with the same payload.
C9_ConversionSameKindSamePayload ==
    /\ (pc = "dec_stored" /\ res.ok) =>
         /\ res.val.enum = "StoredMessage"
         /\ res.val.variant \in AllKinds
         /\ From(res.val) = [enum |-> "Message", variant |-> res.val.variant,
                             inner |-> res.val.inner]
    /\ pc = "converted" =>
         /\ out.enum = "Message"
         /\ out.variant = res.val.variant
         /\ out.inner = res.val.inner

C9_Witness ==
    /\ pc = "converted"
    /\ out.variant = "Screen"
    /\ out.inner.context # None

\* The destination paths, as the interface documents them.
C10_Paths == [Identify |-> "/v1/identify", Track |-> "/v1/track", Page |-> "/v1/page",
              Screen |-> "/v1/screen", Group |-> "/v1/group", Alias |-> "/v1/alias",
              Batch |-> "/v1/batch"]

\* C10: Message::path is a function of the variant kind alone: it gives each of
\* the seven kinds its documented path, whatever the fields hold, and no two
\* kinds share a path.
C10_PathByKind ==
    pc = "routed" =>
      /\ route = C10_Paths[msg.variant]
      /\ \A kind \in AllKinds \ {msg.variant} : path(Message(kind, DefaultOf(kind))) # route

C10_Witness ==
    /\ pc = "routed"
    /\ msg.variant = "Screen"
    /\ msg.inner.extra # EmptyMap
    /\ route = "/v1/screen"

\* The names the stored decoder accepts as a discriminant.
KnownDiscriminants == {KindName[kind] : kind \in AllKinds}

\* The positions of the "type" entries of a record.
TypeEntries(obj) == {i \in 1..Len(obj) : obj[i].k = "type"}

\* C11: decoding stored bytes whose discriminant is a name other than identify,
\* track, page, screen, group, alias, batch fails with the unknown-variant error,
\* and that error names the discriminant read; whatever other fields the record
\* carries, and wherever an unrecognized "type" entry stands in it, the decode
\* yields no value of any variant, so nothing is converted or delivered.
C11_UnknownDiscriminantRejected ==
    /\ pc = "dec_received" /\ TypeEntries(wire) # {}
          /\ Get(wire, "type").t = "str" /\ Get(wire, "type").s \notin KnownDiscriminants
       => /\ ~res.ok
          /\ res.err = "unknown variant"
          /\ res.unknown = Get(wire, "type").s
          /\ res.val = <<>>
    /\ pc \in {"dec_received", "delivered"}
          /\ (\E i \in TypeEntries(wire) :
                 wire[i].v \notin {JStr(name) : name \in KnownDiscriminants})
       => ~res.ok /\ pc # "delivered" /\ out = NoMsg

\* A record with discriminant "unknown_kind" that carries every field of a
\* well-formed track has been decoded, and the error names "unknown_kind".
C11_Witness ==
    /\ pc = "dec_received"
    /\ Get(wire, "type") = JStr("unknown_kind")
    /\ {"userId", "event", "properties", "timestamp"} \subseteq Keys(wire)
    /\ res.unknown = "unknown_kind"

====
